---- MODULE Spec2Model ----
(***************************************************************************)
(* Umoren/onesignal-backend: an Express facade that validates JSON         *)
(* requests, builds OneSignal payloads and forwards them with axios.       *)
(*                                                                         *)
(* Sources:                                                                *)
(*   src/unnamed/part_000            services/onesignal.js                 *)
(*   src/src/routes/notifications.js the push router                       *)
(*   src/Readme.md 270-442           routes/emails.js                      *)
(*   src/Readme.md 443-562           routes/journeys.js                    *)
(*                                                                         *)
(* The clock (Date.now()) counts milliseconds.  An instant is kept as its  *)
(* whole seconds and its milliseconds, the two parts toISOString prints;   *)
(* toISOString of NaN throws RangeError.                                   *)
(* A JSON object is a function whose DOMAIN is the set of keys present.    *)
(***************************************************************************)
EXTENDS Integers, Sequences, FiniteSets, TLC

\* ------------------------------------------------------------------ bounds
MaxNow == 1        \* the clock reads 0..MaxNow milliseconds
MaxAmount == 1     \* numeric delayAmount values 1..MaxAmount

\* ------------------------------------------------------- JavaScript values
\* The value of a key that is absent from a JSON body (undefined).
Undefined == "<undefined>"

Truthy(s) == s # Undefined /\ s # ""

\* delayAmount: undefined, a number or a string, kept with its type.
NoAmount == [t |-> "undefined", n |-> 0, s |-> ""]
Num(k) == [t |-> "number", n |-> k, s |-> ""]
Str(x) == [t |-> "string", n |-> 0, s |-> x]

\* data / customData: undefined, or an object given by its own keys.
NoObject == [t |-> "undefined", keys |-> <<>>]
Obj(ks) == [t |-> "object", keys |-> ks]
EmptyObject == Obj(<<>>)

\* x || {}
OrEmpty(d) == IF d.t = "undefined" THEN EmptyObject ELSE d

\* Object.keys(x).length
KeyCount(d) == Len(d.keys)

\* A number or NaN.
NaN == [nan |-> TRUE, v |-> 0]
Fin(k) == [nan |-> FALSE, v |-> k]

\* ToNumber, as applied by the * operator to delayAmount.
ToNumber(a) ==
    CASE a.t = "number" -> Fin(a.n)
      [] a.t = "undefined" -> NaN
      [] a.t = "string" -> IF a.s = "" THEN Fin(0) ELSE NaN

Times(x, k) == IF x.nan THEN NaN ELSE Fin(x.v * k)

\* new Date(clock + seconds * 1000).toISOString(), for a whole number of seconds.
ISOAfter(clock, seconds) ==
    IF seconds.nan THEN NaN
    ELSE Fin([s |-> clock \div 1000 + seconds.v, ms |-> clock % 1000])

\* Destructuring / parameter default: the default replaces undefined only.

DefaultAmountNone(a) == a

DefaultAmount(a) == IF a.t = "undefined" THEN Num(30) ELSE a
DefaultUnit(u) == IF u = Undefined THEN "seconds" ELSE u

\* --------------------------------------------------- services/onesignal.js
convertToSecondsNoFallback(amount, unit) ==
    LET conversions == [seconds |-> 1, minutes |-> 60, hours |-> 3600, days |-> 86400]
    IN  IF unit \in DOMAIN conversions THEN Times(ToNumber(amount), conversions[unit]) ELSE NaN

convertToSeconds(amount, unit) ==
    LET conversions == [seconds |-> 1, minutes |-> 60, hours |-> 3600, days |-> 86400]
    IN  Times(ToNumber(amount), IF unit \in DOMAIN conversions THEN conversions[unit] ELSE 1)

isValidDelayUnitAny(unit) == unit # ""

isValidDelayUnit(unit) == unit \in {"seconds", "minutes", "hours", "days", "timezone"}

\* What a service method does up to its await: a request to the provider, or
\* an exception thrown while the payload was built.
Request(method, path, auth, payload) ==
    [threw |-> FALSE, method |-> method, path |-> path, auth |-> auth, payload |-> payload]
Threw(message) == [threw |-> TRUE, message |-> message]

\* The "Add delay configuration" block of both delayed senders: the fields it
\* adds, or NaN when new Date(NaN).toISOString() throws.
DelayFieldsClockInTimezone(delayAmount, delayUnit, clock) ==
    IF delayUnit \in {"seconds", "minutes", "hours"}
    THEN LET sendAfter == ISOAfter(clock, convertToSeconds(delayAmount, delayUnit))
         IN  IF sendAfter.nan THEN NaN
             ELSE [nan |-> FALSE, fields |-> [send_after |-> sendAfter.v]]
    ELSE IF delayUnit = "timezone"
    THEN [nan |-> FALSE,
          fields |-> [delayed_option |-> "timezone", delivery_time_of_day |-> delayAmount,
                      send_after |-> ISOAfter(clock, Fin(0)).v]]
    ELSE [nan |-> FALSE, fields |-> <<>>]


DelayFieldsOptionForAll(delayAmount, delayUnit, clock) ==
    IF delayUnit \in {"seconds", "minutes", "hours"}
    THEN LET sendAfter == ISOAfter(clock, convertToSeconds(delayAmount, delayUnit))
         IN  IF sendAfter.nan THEN NaN
             ELSE [nan |-> FALSE,
                   fields |-> [send_after |-> sendAfter.v, delayed_option |-> delayUnit]]
    ELSE IF delayUnit = "timezone"
    THEN [nan |-> FALSE,
          fields |-> [delayed_option |-> "timezone", delivery_time_of_day |-> delayAmount]]
    ELSE [nan |-> FALSE, fields |-> <<>>]

DelayFields(delayAmount, delayUnit, clock) ==
    IF delayUnit \in {"seconds", "minutes", "hours"}
    THEN LET sendAfter == ISOAfter(clock, convertToSeconds(delayAmount, delayUnit))
         IN  IF sendAfter.nan THEN NaN
             ELSE [nan |-> FALSE, fields |-> [send_after |-> sendAfter.v]]
    ELSE IF delayUnit = "timezone"
    THEN [nan |-> FALSE,
          fields |-> [delayed_option |-> "timezone", delivery_time_of_day |-> delayAmount]]
    ELSE [nan |-> FALSE, fields |-> <<>>]

\* The "Target specific user or segment" block of both push senders.
PushTargetBoth(userId, segment) ==
    (IF Truthy(userId) THEN [include_aliases |-> [external_id |-> <<userId>>]] ELSE <<>>)
    @@ [included_segments |-> <<IF Truthy(segment) THEN segment ELSE "Subscribed Users">>]

PushTarget(userId, segment) ==
    IF Truthy(userId) THEN [include_aliases |-> [external_id |-> <<userId>>]]
    ELSE IF Truthy(segment) THEN [included_segments |-> <<segment>>]
    ELSE [included_segments |-> <<"Subscribed Users">>]

\* "Add user identification if provided" of the email senders.
EmailAlias(userId) ==
    IF Truthy(userId) THEN [include_aliases |-> [external_id |-> <<userId>>]] ELSE <<>>

\* "Add personalization data" of the email senders.
CustomDataAlways(customData) == [custom_data |-> customData]

CustomData(customData) ==
    IF KeyCount(customData) > 0 THEN [custom_data |-> customData] ELSE <<>>

\* axios.create({baseURL, headers: {Authorization: `Key ${apiKey}`}})
Client(svc) == [baseURL |-> svc.apiUrl, scheme |-> "Key", key |-> svc.apiKey]

PushBase(svc, title, body, data) ==
    [app_id |-> svc.appId, target_channel |-> "push",
     headings |-> [en |-> title], contents |-> [en |-> body],
     data |-> OrEmpty(data)]

EmailBase(svc, email, subject, body) ==
    [app_id |-> svc.appId, target_channel |-> "email",
     email_subject |-> subject, email_body |-> body,
     include_email_tokens |-> <<email>>]

sendPushNotification(svc, a) ==
    Request("POST", <<"/notifications">>, Client(svc),
            PushBase(svc, a.title, a.body, a.data) @@ PushTarget(a.userId, a.segment))

sendDelayedPushNotification(svc, a, clock) ==
    LET delay == DelayFields(DefaultAmount(a.delayAmount), DefaultUnit(a.delayUnit), clock)
    IN  IF delay.nan THEN Threw("Invalid time value")
        ELSE Request("POST", <<"/notifications">>, Client(svc),
                     PushBase(svc, a.title, a.body, a.data) @@ delay.fields
                        @@ PushTarget(a.userId, a.segment))

sendEmail(svc, a) ==
    Request("POST", <<"/notifications">>, Client(svc),
            EmailBase(svc, a.email, a.subject, a.body) @@ EmailAlias(a.userId)
               @@ CustomData(OrEmpty(a.customData)))

sendDelayedEmail(svc, a, clock) ==
    LET delay == DelayFields(DefaultAmount(a.delayAmount), DefaultUnit(a.delayUnit), clock)
    IN  IF delay.nan THEN Threw("Invalid time value")
        ELSE Request("POST", <<"/notifications">>, Client(svc),
                     EmailBase(svc, a.email, a.subject, a.body) @@ delay.fields
                        @@ EmailAlias(a.userId) @@ CustomData(OrEmpty(a.customData)))

sendEmailToSegment(svc, a) ==
    Request("POST", <<"/notifications">>, Client(svc),
            [app_id |-> svc.appId, target_channel |-> "email",
             email_subject |-> a.subject, email_body |-> a.body,
             included_segments |-> <<a.segment>>]
               @@ CustomData(OrEmpty(a.customData)))

getNotification(svc, notificationId) ==
    Request("GET", <<"/notifications", notificationId>>, Client(svc), <<>>)

cancelNotification(svc, notificationId) ==
    Request("DELETE", <<"/notifications", notificationId>>, Client(svc), <<>>)

createUser(svc, a) ==
    Request("POST", <<"/users">>, Client(svc),
            [aliases |-> [external_id |-> a.externalId],
             properties |-> [tags |-> [first_name |-> a.firstName,
                                       company_name |-> a.companyName]]]
            @@ (IF Len(a.email) > 0
                THEN [subscriptions |-> <<[type |-> "Email", token |-> a.email,
                                           enabled |-> TRUE]>>]
                ELSE <<>>))


addUserToSegmentKeepsTags(svc, externalId, segmentTag, segmentValue) ==
    Request("PATCH", <<"/users/by/external_id", externalId>>, Client(svc),
            [properties |-> [tags |-> (segmentTag :> segmentValue) @@ [new_users |-> "true"]]])

addUserToSegment(svc, externalId, segmentTag, segmentValue) ==
    Request("PATCH", <<"/users/by/external_id", externalId>>, Client(svc),
            [properties |-> [tags |-> (segmentTag :> segmentValue)]])

\* testConnection: the primary diagnostic call ...
testConnectionNew(svc) == Request("GET", <<"/apps", svc.appId>>, Client(svc), <<>>)

\* ... and the legacy one; this.legacyBaseURL is assigned nowhere.
testConnectionLegacy(svc) ==
    Request("GET", <<"/apps", svc.appId>>,
            [baseURL |-> Undefined, scheme |-> "Basic", key |-> svc.apiKey], <<>>)

\* The value testConnection returns, from the replies to the calls it made
\* (one reply when the primary call succeeded, else two).
testConnectionResultNoHint(svc, replies) ==
    IF replies[1].ok
    THEN [success |-> TRUE, api |-> "new", url |-> svc.apiUrl, app |-> replies[1].data]
    ELSE IF replies[2].ok
    THEN [success |-> TRUE, api |-> "new", url |-> Undefined, app |-> replies[2].data]
    ELSE [success |-> FALSE, newApiError |-> replies[1].message]

testConnectionResult(svc, replies) ==
    IF replies[1].ok
    THEN [success |-> TRUE, api |-> "new", url |-> svc.apiUrl, app |-> replies[1].data]
    ELSE IF replies[2].ok
    THEN [success |-> TRUE, api |-> "legacy", url |-> Undefined, app |-> replies[2].data]
    ELSE [success |-> FALSE,
          newApiError |-> replies[1].message,
          legacyApiError |-> replies[2].message,
          suggestion |-> "Check your API key and App ID. Make sure your API key is the REST API Key from Settings > Keys & IDs"]

\* ------------------------------------------------------------ the routers
\* An email address is the sequence of its characters; undefined and "" are
\* both <<>> (the handlers only test them for falsiness).
NoEmail == <<>>

\* /^[^\s@]+@[^\s@]+\.[^\s@]+$/.test(email)
emailRegex(e) ==
    \E i \in 1..Len(e), j \in 1..Len(e) :
        /\ 1 < i /\ i + 1 < j /\ j < Len(e)
        /\ e[i] = "@" /\ e[j] = "."
        /\ \A k \in 1..Len(e) : k # i => e[k] \notin {"@", " "}

Routes ==
    {"GET /health", "POST /push", "POST /push/delayed", "POST /push/segment",
     "GET /push/:notificationId", "DELETE /push/:notificationId",
     "POST /send", "POST /send/delayed", "POST /send/segment",
     "GET /test-connection", "POST /create-user", "POST /trigger-journey"}

\* What a handler does up to its first await or its first res.json.
Respond(status, json) == [kind |-> "respond", status |-> status, json |-> json]
Await(request) == [kind |-> "await", request |-> request]

\* The text each catch block puts in the error field.
FailText(route) ==
    CASE route = "POST /push" -> "Failed to send push notification"
      [] route = "POST /push/delayed" -> "Failed to schedule push notification"
      [] route = "POST /push/segment" -> "Failed to send push notification to segment"
      [] route = "GET /push/:notificationId" -> "Failed to get notification details"
      [] route = "DELETE /push/:notificationId" -> "Failed to cancel notification"
      [] route = "POST /send" -> "Failed to send email"
      [] route = "POST /send/delayed" -> "Failed to schedule email"
      [] route = "POST /send/segment" -> "Failed to send email to segment"
      [] route = "POST /create-user" -> "Failed to create user"
      [] route = "POST /trigger-journey" -> "Failed to trigger journey"
      [] route = "GET /test-connection" -> "Failed to test OneSignal connection"

\* await oneSignal.method(...): a method that threw while building its payload
\* rejects, and the handler's catch answers.
Call(route, outcome) ==
    IF outcome.threw
    THEN Respond(500, [error |-> FailText(route), message |-> outcome.message])
    ELSE Await(outcome)

\* error.response?.data?.errors?.[0] || error.message
FirstErrorLast(err) ==
    IF err.hasResponse /\ Len(err.errors) > 0 THEN err.errors[Len(err.errors)] ELSE err.message

FirstError(err) ==
    IF err.hasResponse /\ Len(err.errors) > 0 /\ Truthy(err.errors[1])
    THEN err.errors[1] ELSE err.message

\* The catch block of every handler but test-connection's.
OnRejected(route, err) ==
    Respond(500, [error |-> FailText(route), message |-> FirstError(err)])

PostPushNoTargetCheck(b, svc) ==
    IF ~Truthy(b.title) \/ ~Truthy(b.body)
    THEN Respond(400, [error |-> "Missing required fields: title, body"])
    ELSE Call("POST /push",
              sendPushNotification(svc, [userId |-> b.userId, title |-> b.title,
                  body |-> b.body, data |-> OrEmpty(b.data), segment |-> b.segment]))

PostPushHandler(b, svc) ==
    IF ~Truthy(b.title) \/ ~Truthy(b.body)
    THEN Respond(400, [error |-> "Missing required fields: title, body"])
    ELSE IF ~Truthy(b.userId) /\ ~Truthy(b.segment)
    THEN Respond(400, [error |-> "Either userId or segment must be provided"])
    ELSE Call("POST /push",
              sendPushNotification(svc, [userId |-> b.userId, title |-> b.title,
                  body |-> b.body, data |-> OrEmpty(b.data), segment |-> b.segment]))

PostPushDelayedHandler(b, svc, clock) ==
    LET delayAmount == DefaultAmount(b.delayAmount)
        delayUnit == DefaultUnit(b.delayUnit)
    IN  IF ~Truthy(b.title) \/ ~Truthy(b.body)
        THEN Respond(400, [error |-> "Missing required fields: title, body"])
        ELSE IF ~Truthy(b.userId) /\ ~Truthy(b.segment)
        THEN Respond(400, [error |-> "Either userId or segment must be provided"])
        ELSE IF ~isValidDelayUnit(delayUnit)
        THEN Respond(400, [error |-> "Invalid delay unit. Must be one of: seconds, minutes, hours, days, timezone"])
        ELSE Call("POST /push/delayed",
                  sendDelayedPushNotification(svc, [userId |-> b.userId, title |-> b.title,
                      body |-> b.body, data |-> OrEmpty(b.data), segment |-> b.segment,
                      delayAmount |-> delayAmount, delayUnit |-> delayUnit], clock))

PostPushSegmentHandler(b, svc) ==
    IF ~Truthy(b.segment) \/ ~Truthy(b.title) \/ ~Truthy(b.body)
    THEN Respond(400, [error |-> "Missing required fields: segment, title, body"])
    ELSE Call("POST /push/segment",
              sendPushNotification(svc, [userId |-> Undefined, title |-> b.title,
                  body |-> b.body, data |-> OrEmpty(b.data), segment |-> b.segment]))

GetPushHandler(b, svc) ==
    Call("GET /push/:notificationId", getNotification(svc, b.notificationId))

DeletePushHandler(b, svc) ==
    Call("DELETE /push/:notificationId", cancelNotification(svc, b.notificationId))

PostSendHandler(b, svc) ==
    IF Len(b.email) = 0 \/ ~Truthy(b.subject) \/ ~Truthy(b.body)
    THEN Respond(400, [error |-> "Missing required fields: email, subject, body"])
    ELSE IF ~emailRegex(b.email)
    THEN Respond(400, [error |-> "Invalid email format"])
    ELSE Call("POST /send",
              sendEmail(svc, [email |-> b.email, subject |-> b.subject, body |-> b.body,
                  userId |-> b.userId, customData |-> OrEmpty(b.customData)]))

PostSendDelayedHandler(b, svc, clock) ==
    LET delayAmount == DefaultAmount(b.delayAmount)
        delayUnit == DefaultUnit(b.delayUnit)
    IN  IF Len(b.email) = 0 \/ ~Truthy(b.subject) \/ ~Truthy(b.body)
        THEN Respond(400, [error |-> "Missing required fields: email, subject, body"])
        ELSE IF ~emailRegex(b.email)
        THEN Respond(400, [error |-> "Invalid email format"])
        ELSE IF ~isValidDelayUnit(delayUnit)
        THEN Respond(400, [error |-> "Invalid delay unit. Must be one of: seconds, minutes, hours, days, timezone"])
        ELSE Call("POST /send/delayed",
                  sendDelayedEmail(svc, [email |-> b.email, subject |-> b.subject,
                      body |-> b.body, userId |-> b.userId,
                      customData |-> OrEmpty(b.customData),
                      delayAmount |-> delayAmount, delayUnit |-> delayUnit], clock))

PostSendSegmentHandler(b, svc) ==
    IF ~Truthy(b.segment) \/ ~Truthy(b.subject) \/ ~Truthy(b.body)
    THEN Respond(400, [error |-> "Missing required fields: segment, subject, body"])
    ELSE Call("POST /send/segment",
              sendEmailToSegment(svc, [segment |-> b.segment, subject |-> b.subject,
                  body |-> b.body, customData |-> OrEmpty(b.customData)]))

PostCreateUserHandler(b, svc) ==
    IF ~Truthy(b.externalId) \/ Len(b.email) = 0 \/ ~Truthy(b.firstName)
    THEN Respond(400, [error |-> "externalId, email, and firstName are required"])
    ELSE Call("POST /create-user",
              createUser(svc, [externalId |-> b.externalId, email |-> b.email,
                  firstName |-> b.firstName,
                  companyName |-> IF Truthy(b.companyName) THEN b.companyName
                                  ELSE "Test Company"]))

PostTriggerJourneyHandler(b, svc) ==
    LET segmentTag == IF b.segmentTag = Undefined THEN "new_users" ELSE b.segmentTag
        segmentValue == IF b.segmentValue = Undefined THEN "true" ELSE b.segmentValue
    IN  IF ~Truthy(b.externalId)
        THEN Respond(400, [error |-> "externalId is required"])
        ELSE Call("POST /trigger-journey",
                  addUserToSegment(svc, b.externalId, segmentTag, segmentValue))

GetTestConnectionHandler(b, svc) == Call("GET /test-connection", testConnectionNew(svc))

\* key: value in a JSON response; JSON.stringify drops a key whose value is undefined.
Opt(key, v) == IF v = Undefined THEN <<>> ELSE key :> v

\* scheduledFor of the delayed handlers; "threw" when toISOString throws.
ScheduledFor(delayAmount, delayUnit, clock) ==
    IF delayUnit # "timezone"
    THEN LET at == ISOAfter(clock, convertToSeconds(delayAmount, delayUnit))
         IN  IF at.nan THEN [threw |-> TRUE]
             ELSE [threw |-> FALSE, value |-> [t |-> "instant", at |-> at.v]]
    ELSE [threw |-> FALSE,
          value |-> [t |-> "text", text |-> <<delayAmount, "in user's timezone">>]]

DelayText(delayAmount, delayUnit) ==
    IF delayUnit = "timezone" THEN <<"at", delayAmount>> ELSE <<"in", delayAmount, delayUnit>>

\* The rest of a handler's try block, run when its provider call resolved.
OnFulfilled(route, b, result, clock) ==
    CASE route = "POST /push" ->
            Respond(200, [message |-> <<"Push notification sent successfully">>,
                          notificationId |-> result.id, recipients |-> result.recipients,
                          success |-> TRUE])
      [] route \in {"POST /push/delayed", "POST /send/delayed"} ->
            LET delayAmount == DefaultAmount(b.delayAmount)
                delayUnit == DefaultUnit(b.delayUnit)
                scheduledFor == ScheduledFor(delayAmount, delayUnit, clock)
            IN  IF scheduledFor.threw
                THEN Respond(500, [error |-> FailText(route), message |-> "Invalid time value"])
                ELSE Respond(200,
                        [message |-> <<IF route = "POST /push/delayed"
                                       THEN "Push notification scheduled"
                                       ELSE "Email scheduled">>
                                     \o DelayText(delayAmount, delayUnit),
                         notificationId |-> result.id, recipients |-> result.recipients,
                         scheduledFor |-> scheduledFor.value, success |-> TRUE]
                        @@ (IF route = "POST /send/delayed" THEN [email |-> b.email] ELSE <<>>))
      [] route = "POST /push/segment" ->
            Respond(200, [message |-> <<"Push notification sent to segment:", b.segment>>,
                          notificationId |-> result.id, recipients |-> result.recipients,
                          success |-> TRUE])
      [] route = "GET /push/:notificationId" ->
            Respond(200, [message |-> <<"Notification details retrieved">>,
                          notification |-> result, success |-> TRUE])
      [] route = "DELETE /push/:notificationId" ->
            Respond(200, [message |-> <<"Notification cancelled successfully">>,
                          notificationId |-> b.notificationId, success |-> TRUE])
      [] route = "POST /send" ->
            Respond(200, [message |-> <<"Email sent successfully">>, email |-> b.email,
                          notificationId |-> result.id, recipients |-> result.recipients,
                          success |-> TRUE])
      [] route = "POST /send/segment" ->
            Respond(200, [message |-> <<"Email sent to segment:", b.segment>>,
                          notificationId |-> result.id, recipients |-> result.recipients,
                          success |-> TRUE])
      [] route = "POST /create-user" ->
            Respond(200, [message |-> <<"User created successfully">>,
                          externalId |-> b.externalId, email |-> b.email, user |-> result,
                          success |-> TRUE])
      [] route = "POST /trigger-journey" ->
            Respond(200, [message |-> <<"Journey triggered - user added to segment">>,
                          externalId |-> b.externalId,
                          segmentTag |-> IF b.segmentTag = Undefined THEN "new_users"
                                         ELSE b.segmentTag,
                          segmentValue |-> IF b.segmentValue = Undefined THEN "true"
                                           ELSE b.segmentValue,
                          note |-> "Journey will execute automatically based on your OneSignal Journey setup",
                          success |-> TRUE])

\* GET /test-connection, once testConnection has returned.
OnProbeResult(result) ==
    IF result.success
    THEN Respond(200, [message |-> <<"OneSignal API connection successful">>,
                       app_name |-> result.app.name, success |-> TRUE]
                      @@ Opt("url", result.url))
    ELSE Respond(500, [error |-> "OneSignal API connection failed",
                       suggestion |-> result.suggestion, success |-> FALSE])

\* ------------------------------------------------------------------ state
VARIABLES
    env,        \* process.env: ONESIGNAL_APP_ID, ONESIGNAL_API_KEY, ONESIGNAL_API_URL
    oneSignal,  \* the routers' OneSignalService instance (all built from one env)
    now,        \* Date.now()
    pc,         \* per exchange: "idle", "awaiting", "awaitingLegacy", "responded";
                \* "returned" for a service method called directly
    req,        \* per exchange: the route and the request body
    calls,      \* per exchange: the provider requests issued, in order
    replies,    \* per exchange: the provider's answers to them, in order
    result,     \* per exchange: what the service method returned
    res         \* per exchange: the responses sent, in order

vars == <<env, oneSignal, now, pc, req, calls, replies, result, res>>

\* The exchanges that can be open at once.
Reqs == {1, 2}

NoReq == [route |-> "none", body |-> <<>>]
NoResult == [none |-> TRUE]

\* ------------------------------------------------------------------ inputs
Ids(v) == {Undefined, v}
DataVals == {NoObject, EmptyObject, Obj(<<"plan">>)}
AmountVals == {NoAmount, Str("9:00AM")} \cup {Num(k) : k \in 1..MaxAmount}
UnitVals == {Undefined, "seconds", "minutes", "hours", "days", "timezone", "weeks"}
EmailVals == {NoEmail, <<"a", "@", "b", ".", "c", "o">>, <<"f", "o", "o", "@", "b", "a", "r">>}

PushBodies ==
    [userId : Ids("u1"), title : Ids("T"), body : Ids("B"), data : DataVals,
     segment : Ids("VIP")]
PushDelayedBodies ==
    [userId : Ids("u1"), title : Ids("T"), body : Ids("B"), data : DataVals,
     segment : Ids("VIP"), delayAmount : AmountVals, delayUnit : UnitVals]
PushSegmentBodies ==
    [segment : Ids("VIP"), title : Ids("T"), body : Ids("B"), data : DataVals]
IdParams == [notificationId : {"n1"}]
SendBodies ==
    [email : EmailVals, subject : Ids("S"), body : Ids("B"), userId : Ids("u1"),
     customData : DataVals]
SendDelayedBodies ==
    [email : EmailVals, subject : Ids("S"), body : Ids("B"), userId : Ids("u1"),
     customData : DataVals, delayAmount : AmountVals, delayUnit : UnitVals]
SendSegmentBodies ==
    [segment : Ids("VIP"), subject : Ids("S"), body : Ids("B"), customData : DataVals]
CreateUserBodies ==
    [externalId : Ids("u1"), email : EmailVals, firstName : Ids("Ada"),
     companyName : Ids("Acme")]
TriggerJourneyBodies ==
    [externalId : Ids("u1"), segmentTag : Ids("vip"), segmentValue : Ids("yes")]

\* The provider's answers: 2xx with a body, non-2xx with or without an errors
\* array, or no answer at all.
Data == [id |-> "n1", recipients |-> 1, name |-> "My App"]
NoData == [id |-> Undefined, recipients |-> 0, name |-> Undefined]
Fulfilled == [ok |-> TRUE, hasResponse |-> TRUE, errors |-> <<>>, message |-> "", data |-> Data]
Rejected(errors) ==
    [ok |-> FALSE, hasResponse |-> TRUE, errors |-> errors,
     message |-> "Request failed with status code 401", data |-> NoData]
NoAnswer ==
    [ok |-> FALSE, hasResponse |-> FALSE, errors |-> <<>>,
     message |-> "connect ECONNREFUSED", data |-> NoData]
Replies == {Fulfilled, Rejected(<<>>), Rejected(<<"Invalid app_id", "Invalid key">>), NoAnswer}

\* ----------------------------------------------------------------- actions
Init ==
    /\ env \in [ONESIGNAL_APP_ID : Ids("app-1"), ONESIGNAL_API_KEY : Ids("os_v2_key"),
                ONESIGNAL_API_URL : Ids("https://proxy.example")]
    /\ oneSignal = [state |-> "unloaded"]
    /\ now = 0
    /\ pc = [r \in Reqs |-> "idle"]
    /\ req = [r \in Reqs |-> NoReq]
    /\ calls = [r \in Reqs |-> <<>>]
    /\ replies = [r \in Reqs |-> <<>>]
    /\ result = [r \in Reqs |-> NoResult]
    /\ res = [r \in Reqs |-> <<>>]

\* new OneSignalService(), run when the routers are imported.

constructorNoCheck(e) ==
    [state |-> "ready", appId |-> e.ONESIGNAL_APP_ID, apiKey |-> e.ONESIGNAL_API_KEY,
     apiUrl |-> IF Truthy(e.ONESIGNAL_API_URL) THEN e.ONESIGNAL_API_URL
                ELSE "https://api.onesignal.com"]

constructor(e) ==
    IF ~Truthy(e.ONESIGNAL_APP_ID) \/ ~Truthy(e.ONESIGNAL_API_KEY)
    THEN [state |-> "failed",
          message |-> "ONESIGNAL_APP_ID and ONESIGNAL_API_KEY are required"]
    ELSE [state |-> "ready", appId |-> e.ONESIGNAL_APP_ID, apiKey |-> e.ONESIGNAL_API_KEY,
          apiUrl |-> IF Truthy(e.ONESIGNAL_API_URL) THEN e.ONESIGNAL_API_URL
                     ELSE "https://api.onesignal.com"]

Construct ==
    /\ oneSignal.state = "unloaded"
    /\ oneSignal' = constructor(env)
    /\ UNCHANGED <<env, now, pc, req, calls, replies, result, res>>

Tick ==
    /\ now < MaxNow
    /\ now' = now + 1
    /\ UNCHANGED <<env, oneSignal, pc, req, calls, replies, result, res>>

\* The routers are mounted and exchange r is free.
Idle(r) == oneSignal.state = "ready" /\ pc[r] = "idle"

\* A request arrives at a route and its handler runs to its first await or
\* to its response.
Begin(r, route, b, step) ==
    /\ req' = [req EXCEPT ![r] = [route |-> route, body |-> b]]
    /\ IF step.kind = "await"
       THEN /\ pc' = [pc EXCEPT ![r] = "awaiting"]
            /\ calls' = [calls EXCEPT ![r] = Append(@, step.request @@ [at |-> now])]
            /\ res' = res
       ELSE /\ pc' = [pc EXCEPT ![r] = "responded"]
            /\ calls' = calls
            /\ res' = [res EXCEPT ![r] = Append(@, [status |-> step.status,
                                                    json |-> step.json, at |-> now])]
    /\ UNCHANGED <<env, oneSignal, now, replies, result>>

GetHealth(r) ==
    /\ Idle(r)
    /\ \E service \in {"onesignal-backend", "notifications", "email", "journeys"} :
       Begin(r, "GET /health", <<>>,
       Respond(200, [status |-> "OK", service |-> service, timestamp |-> now]))

PostPush(r) ==
    /\ Idle(r)
    /\ \E b \in PushBodies : Begin(r, "POST /push", b, PostPushHandler(b, oneSignal))

PostPushDelayed(r) ==
    /\ Idle(r)
    /\ \E b \in PushDelayedBodies :
       Begin(r, "POST /push/delayed", b, PostPushDelayedHandler(b, oneSignal, now))

PostPushSegment(r) ==
    /\ Idle(r)
    /\ \E b \in PushSegmentBodies :
       Begin(r, "POST /push/segment", b, PostPushSegmentHandler(b, oneSignal))

GetPush(r) ==
    /\ Idle(r)
    /\ \E b \in IdParams : Begin(r, "GET /push/:notificationId", b, GetPushHandler(b, oneSignal))

DeletePush(r) ==
    /\ Idle(r)
    /\ \E b \in IdParams :
       Begin(r, "DELETE /push/:notificationId", b, DeletePushHandler(b, oneSignal))

PostSend(r) ==
    /\ Idle(r)
    /\ \E b \in SendBodies : Begin(r, "POST /send", b, PostSendHandler(b, oneSignal))

PostSendDelayed(r) ==
    /\ Idle(r)
    /\ \E b \in SendDelayedBodies :
       Begin(r, "POST /send/delayed", b, PostSendDelayedHandler(b, oneSignal, now))

PostSendSegment(r) ==
    /\ Idle(r)
    /\ \E b \in SendSegmentBodies :
       Begin(r, "POST /send/segment", b, PostSendSegmentHandler(b, oneSignal))

PostCreateUser(r) ==
    /\ Idle(r)
    /\ \E b \in CreateUserBodies :
       Begin(r, "POST /create-user", b, PostCreateUserHandler(b, oneSignal))

PostTriggerJourney(r) ==
    /\ Idle(r)
    /\ \E b \in TriggerJourneyBodies :
       Begin(r, "POST /trigger-journey", b, PostTriggerJourneyHandler(b, oneSignal))

GetTestConnection(r) ==
    /\ Idle(r)
    /\ Begin(r, "GET /test-connection", <<>>, GetTestConnectionHandler(<<>>, oneSignal))


\* A handler that answers and then falls through to answer again.
SendTwice(r, step) ==
    /\ pc' = [pc EXCEPT ![r] = "responded"]
    /\ res' = [res EXCEPT ![r] = @ \o << [status |-> step.status, json |-> step.json, at |-> now],
                                         [status |-> step.status, json |-> step.json, at |-> now] >>]

Send(r, step) ==
    /\ pc' = [pc EXCEPT ![r] = "responded"]
    /\ res' = [res EXCEPT ![r] = Append(@, [status |-> step.status, json |-> step.json,
                                            at |-> now])]

\* A continuation that reads the request of whichever exchange is open beside its own.
ResumeSharedRequest(r) ==
    /\ pc[r] = "awaiting"
    /\ req[r].route \in Routes \ {"GET /test-connection"}
    /\ \E reply \in Replies :
        LET others == {q \in Reqs \ {r} : pc[q] # "idle" /\ req[q].route = req[r].route}
            seen == IF others = {} THEN r ELSE CHOOSE q \in others : TRUE
        IN  /\ replies' = [replies EXCEPT ![r] = Append(@, reply)]
            /\ IF reply.ok
               THEN /\ result' = [result EXCEPT ![r] = reply.data]
                    /\ Send(r, OnFulfilled(req[r].route, req[seen].body, reply.data, now))
               ELSE /\ result' = result
                    /\ Send(r, OnRejected(req[r].route, reply))
    /\ UNCHANGED <<env, oneSignal, now, req, calls>>

\* The provider answers the one call of a handler, which then responds.
Resume(r) ==
    /\ pc[r] = "awaiting"
    /\ req[r].route \in Routes \ {"GET /test-connection"}
    /\ \E reply \in Replies :
        /\ replies' = [replies EXCEPT ![r] = Append(@, reply)]
        /\ IF reply.ok
           THEN /\ result' = [result EXCEPT ![r] = reply.data]
                /\ Send(r, OnFulfilled(req[r].route, req[r].body, reply.data, now))
           ELSE /\ result' = result
                /\ Send(r, OnRejected(req[r].route, reply))
    /\ UNCHANGED <<env, oneSignal, now, req, calls>>

\* testConnection: the primary call is answered; on failure the legacy call is issued.
ProbeResume(r) ==
    /\ pc[r] = "awaiting"
    /\ req[r].route = "GET /test-connection"
    /\ \E reply \in Replies :
        /\ replies' = [replies EXCEPT ![r] = Append(@, reply)]
        /\ IF reply.ok
           THEN /\ result' = [result EXCEPT ![r] = testConnectionResult(oneSignal, replies'[r])]
                /\ Send(r, OnProbeResult(result'[r]))
                /\ calls' = calls
           ELSE /\ pc' = [pc EXCEPT ![r] = "awaitingLegacy"]
                /\ calls' = [calls EXCEPT ![r] =
                                Append(@, testConnectionLegacy(oneSignal) @@ [at |-> now])]
                /\ UNCHANGED <<result, res>>
    /\ UNCHANGED <<env, oneSignal, now, req>>

\* testConnection: the legacy call is answered.
ProbeLegacyResume(r) ==
    /\ pc[r] = "awaitingLegacy"
    /\ \E reply \in Replies :
        /\ replies' = [replies EXCEPT ![r] = Append(@, reply)]
        /\ result' = [result EXCEPT ![r] = testConnectionResult(oneSignal, replies'[r])]
        /\ Send(r, OnProbeResult(result'[r]))
    /\ UNCHANGED <<env, oneSignal, now, req, calls>>

\* The exchange is over; nothing of it is kept.
Close(r) ==
    /\ pc[r] \in {"responded", "returned"}
    /\ pc' = [pc EXCEPT ![r] = "idle"]
    /\ req' = [req EXCEPT ![r] = NoReq]
    /\ calls' = [calls EXCEPT ![r] = <<>>]
    /\ replies' = [replies EXCEPT ![r] = <<>>]
    /\ result' = [result EXCEPT ![r] = NoResult]
    /\ res' = [res EXCEPT ![r] = <<>>]
    /\ UNCHANGED <<env, oneSignal, now>>

\* Spec serves one exchange at a time.
Quiet(r) == \A q \in Reqs \ {r} : pc[q] = "idle"

Next ==
    \/ Construct
    \/ Tick
    \/ \E r \in Reqs :
        \/ Quiet(r) /\ GetHealth(r)
        \/ Quiet(r) /\ PostPush(r)
        \/ Quiet(r) /\ PostPushDelayed(r)
        \/ Quiet(r) /\ PostPushSegment(r)
        \/ Quiet(r) /\ GetPush(r)
        \/ Quiet(r) /\ DeletePush(r)
        \/ Quiet(r) /\ PostSend(r)
        \/ Quiet(r) /\ PostSendDelayed(r)
        \/ Quiet(r) /\ PostSendSegment(r)
        \/ Quiet(r) /\ PostCreateUser(r)
        \/ Quiet(r) /\ PostTriggerJourney(r)
        \/ Quiet(r) /\ GetTestConnection(r)
        \/ Resume(r)
        \/ ProbeResume(r)
        \/ ProbeLegacyResume(r)
        \/ Close(r)

Spec == Init /\ [][Next]_vars

\* ------------------------------------------ the service, called directly
\* OneSignalService is the module's export: its methods take any arguments,
\* not only those the handlers let through.
Methods ==
    {"sendPushNotification", "sendDelayedPushNotification", "sendEmail",
     "sendDelayedEmail", "sendEmailToSegment"}

Returned(v) == [threw |-> FALSE, value |-> v]

Invoke(r, method, args, outcome) ==
    /\ req' = [req EXCEPT ![r] = [route |-> method, body |-> args]]
    /\ IF outcome.threw
       THEN /\ pc' = [pc EXCEPT ![r] = "returned"]
            /\ result' = [result EXCEPT ![r] = outcome]
            /\ calls' = calls
       ELSE /\ pc' = [pc EXCEPT ![r] = "awaiting"]
            /\ result' = result
            /\ calls' = [calls EXCEPT ![r] = Append(@, outcome @@ [at |-> now])]
    /\ UNCHANGED <<env, oneSignal, now, replies, res>>

SvcSendPushNotification(r) ==
    /\ Idle(r)
    /\ \E a \in PushBodies :
       Invoke(r, "sendPushNotification", a, sendPushNotification(oneSignal, a))

SvcSendDelayedPushNotification(r) ==
    /\ Idle(r)
    /\ \E a \in PushDelayedBodies :
       Invoke(r, "sendDelayedPushNotification", a,
              sendDelayedPushNotification(oneSignal, a, now))

SvcSendEmail(r) ==
    /\ Idle(r)
    /\ \E a \in SendBodies : Invoke(r, "sendEmail", a, sendEmail(oneSignal, a))

SvcSendDelayedEmail(r) ==
    /\ Idle(r)
    /\ \E a \in SendDelayedBodies :
       Invoke(r, "sendDelayedEmail", a, sendDelayedEmail(oneSignal, a, now))

SvcSendEmailToSegment(r) ==
    /\ Idle(r)
    /\ \E a \in SendSegmentBodies :
       Invoke(r, "sendEmailToSegment", a, sendEmailToSegment(oneSignal, a))

\* The two synchronous helpers.
SvcConvertToSeconds(r) ==
    /\ Idle(r)
    /\ \E amount \in AmountVals, unit \in UnitVals :
        /\ req' = [req EXCEPT ![r] = [route |-> "convertToSeconds",
                                      body |-> [amount |-> amount, unit |-> unit]]]
        /\ result' = [result EXCEPT ![r] = Returned(convertToSeconds(amount, unit))]
    /\ pc' = [pc EXCEPT ![r] = "returned"]
    /\ UNCHANGED <<env, oneSignal, now, calls, replies, res>>

SvcIsValidDelayUnit(r) ==
    /\ Idle(r)
    /\ \E unit \in UnitVals :
        /\ req' = [req EXCEPT ![r] = [route |-> "isValidDelayUnit", body |-> [unit |-> unit]]]
        /\ result' = [result EXCEPT ![r] = Returned(isValidDelayUnit(unit))]
    /\ pc' = [pc EXCEPT ![r] = "returned"]
    /\ UNCHANGED <<env, oneSignal, now, calls, replies, res>>

\* The provider answers: the method returns response.data or rejects.
SvcResume(r) ==
    /\ pc[r] = "awaiting"
    /\ req[r].route \in Methods
    /\ \E reply \in Replies :
        /\ replies' = [replies EXCEPT ![r] = Append(@, reply)]
        /\ result' = [result EXCEPT ![r] =
                        IF reply.ok THEN Returned(reply.data) ELSE Threw(reply.message)]
    /\ pc' = [pc EXCEPT ![r] = "returned"]
    /\ UNCHANGED <<env, oneSignal, now, req, calls, res>>

SvcNext ==
    \/ Next
    \/ \E r \in Reqs :
        \/ Quiet(r) /\ SvcSendPushNotification(r)
        \/ Quiet(r) /\ SvcSendDelayedPushNotification(r)
        \/ Quiet(r) /\ SvcSendEmail(r)
        \/ Quiet(r) /\ SvcSendDelayedEmail(r)
        \/ Quiet(r) /\ SvcSendEmailToSegment(r)
        \/ Quiet(r) /\ SvcConvertToSeconds(r)
        \/ Quiet(r) /\ SvcIsValidDelayUnit(r)
        \/ SvcResume(r)

\* Spec and, besides, the service's methods called with any arguments.
SvcSpec == Init /\ [][SvcNext]_vars

\* =================================================================== claims
\* Vocabulary of the claims, stated apart from the handlers' code.
DelayedRoutes == {"POST /push/delayed", "POST /send/delayed"}
DelayedMethods == {"sendDelayedPushNotification", "sendDelayedEmail"}
PushBuilders ==
    {"POST /push", "POST /push/delayed", "POST /push/segment",
     "sendPushNotification", "sendDelayedPushNotification"}
EmailBuilders ==
    {"POST /send", "POST /send/delayed", "POST /send/segment",
     "sendEmail", "sendDelayedEmail", "sendEmailToSegment"}
\* The handlers that validate a body and forward it with one call.
SendRoutes ==
    {"POST /push", "POST /push/delayed", "POST /push/segment", "POST /send",
     "POST /send/delayed", "POST /send/segment", "POST /create-user",
     "POST /trigger-journey"}
\* The handlers whose catch block reports a failed provider call.
CatchRoutes == SendRoutes \cup {"GET /push/:notificationId", "DELETE /push/:notificationId"}

DurationUnits == {"seconds", "minutes", "hours", "days"}
RecognizedUnits == DurationUnits \cup {"timezone"}
Factor(unit) ==
    CASE unit = "seconds" -> 1 [] unit = "minutes" -> 60
      [] unit = "hours" -> 3600 [] unit = "days" -> 86400

Missing(s) == s \in {Undefined, ""}
\* The delay a request asks for, with the documented defaults (30, seconds).
UnitOf(b) == IF b.delayUnit = Undefined THEN "seconds" ELSE b.delayUnit
AmountOf(b) == IF b.delayAmount = NoAmount THEN Num(30) ELSE b.delayAmount

\* A basic syntactic check: no blank, exactly one "@", something before it,
\* and after it a "." with something on both sides.
Malformed(e) ==
    LET ats == {i \in 1..Len(e) : e[i] = "@"}
    IN  \/ Cardinality(ats) # 1
        \/ \E k \in 1..Len(e) : e[k] = " "
        \/ LET i == CHOOSE i \in ats : TRUE
           IN  i = 1 \/ ~ \E j \in (i + 2)..(Len(e) - 1) : e[j] = "."

\* The request violates the input validation of its route.
Invalid(route, b) ==
    CASE route = "POST /push" ->
            Missing(b.title) \/ Missing(b.body) \/ (Missing(b.userId) /\ Missing(b.segment))
      [] route = "POST /push/delayed" ->
            \/ Missing(b.title) \/ Missing(b.body)
            \/ (Missing(b.userId) /\ Missing(b.segment))
            \/ UnitOf(b) \notin RecognizedUnits
      [] route = "POST /push/segment" ->
            Missing(b.segment) \/ Missing(b.title) \/ Missing(b.body)
      [] route = "POST /send" ->
            b.email = NoEmail \/ Missing(b.subject) \/ Missing(b.body) \/ Malformed(b.email)
      [] route = "POST /send/delayed" ->
            \/ b.email = NoEmail \/ Missing(b.subject) \/ Missing(b.body)
            \/ Malformed(b.email)
            \/ UnitOf(b) \notin RecognizedUnits
      [] route = "POST /send/segment" ->
            Missing(b.segment) \/ Missing(b.subject) \/ Missing(b.body)
      [] route = "POST /create-user" ->
            Missing(b.externalId) \/ b.email = NoEmail \/ Missing(b.firstName)
      [] route = "POST /trigger-journey" -> Missing(b.externalId)

Has(json, key) == key \in DOMAIN json

\* C1: for every delay unit among seconds, minutes, hours and days and every
\* numeric amount, the payload a delayed handler forwards carries send_after
\* equal to the clock reading at the call plus amount * factor seconds.
\* (The code sets no send_after for days.)
C1_SendAfterEveryUnit ==
    \A r \in Reqs :
        (/\ req[r].route \in DelayedRoutes
         /\ calls[r] # <<>>
         /\ UnitOf(req[r].body) \in DurationUnits
         /\ AmountOf(req[r].body).t = "number")
        => LET c == calls[r][1]
               seconds == AmountOf(req[r].body).n * Factor(UnitOf(req[r].body))
           IN  /\ Has(c.payload, "send_after")
               /\ c.payload.send_after = [s |-> c.at \div 1000 + seconds, ms |-> c.at % 1000]

\* C2: a request that violates its route's input validation is answered with
\* status 400, once, and causes no provider call.
C2_InvalidIs400NoCall ==
    \A r \in Reqs :
        (req[r].route \in SendRoutes /\ Invalid(req[r].route, req[r].body))
        => /\ pc[r] = "responded"
           /\ Len(res[r]) = 1
           /\ res[r][1].status = 400
           /\ calls[r] = <<>>

C2_Witness ==
    \E r \in Reqs :
        /\ req[r].route = "POST /send/delayed"
        /\ ~ Malformed(req[r].body.email)
        /\ ~ Missing(req[r].body.subject) /\ ~ Missing(req[r].body.body)
        /\ req[r].body.delayUnit = "weeks"
        /\ pc[r] = "responded" /\ res[r][1].status = 400 /\ calls[r] = <<>>

\* The message the claim C3 requires for a failed provider call.
FailureMessage(reply) ==
    IF reply.hasResponse /\ reply.errors # <<>> THEN Head(reply.errors) ELSE reply.message

BuildThrows(route, b) ==
    /\ route \in DelayedRoutes
    /\ UnitOf(b) \in {"seconds", "minutes", "hours"}
    /\ AmountOf(b).t = "string" /\ AmountOf(b).s # ""

GivenUserId(r) ==
    IF req[r].route = "POST /push/segment" THEN Undefined ELSE req[r].body.userId

\* C5: every push payload carries exactly one targeting mode: include_aliases
\* with the userId when one is given, else included_segments with the given
\* segment, else included_segments = ["Subscribed Users"].
C5_OneTargetingMode ==
    \A r \in Reqs :
        (req[r].route \in PushBuilders /\ calls[r] # <<>>)
        => LET p == calls[r][1].payload
               userId == GivenUserId(r)
               segment == req[r].body.segment
           IN  IF ~ Missing(userId)
               THEN /\ Has(p, "include_aliases")
                    /\ p.include_aliases = [external_id |-> <<userId>>]
                    /\ ~ Has(p, "included_segments")
               ELSE /\ Has(p, "included_segments")
                    /\ p.included_segments =
                          <<IF Missing(segment) THEN "Subscribed Users" ELSE segment>>
                    /\ ~ Has(p, "include_aliases")

\* A userId and a segment are both given: the payload targets the user only.
C5_Witness ==
    \E r \in Reqs :
        /\ req[r].route \in PushBuilders
        /\ req[r].body.userId = "u1" /\ req[r].body.segment = "VIP"
        /\ calls[r] # <<>>
        /\ Has(calls[r][1].payload, "include_aliases")
        /\ ~ Has(calls[r][1].payload, "included_segments")

\* Neither is given (the service called directly): the default segment.
C5_DefaultSegmentReached ==
    \E r \in Reqs :
        /\ req[r].route = "sendPushNotification"
        /\ Missing(req[r].body.userId) /\ Missing(req[r].body.segment)
        /\ calls[r] # <<>>
        /\ calls[r][1].payload.included_segments = <<"Subscribed Users">>

DelayKeys == {"send_after", "delayed_option", "delivery_time_of_day"}

C7_TimezoneCarriesAmount ==
    \A r \in Reqs :
        (req[r].route \in DelayedRoutes \cup DelayedMethods
         /\ UnitOf(req[r].body) = "timezone")
        => /\ req[r].route \in DelayedMethods => Len(calls[r]) = 1
           /\ calls[r] # <<>> =>
                LET p == calls[r][1].payload
                IN  /\ DOMAIN p \cap DelayKeys = {"delayed_option", "delivery_time_of_day"}
                    /\ p.delayed_option = "timezone"
                    /\ p.delivery_time_of_day = AmountOf(req[r].body)

\* A clock-time string is forwarded after the clock has advanced.
C7_Witness ==
    \E r \in Reqs :
        /\ req[r].route = "POST /push/delayed"
        /\ req[r].body.delayUnit = "timezone"
        /\ req[r].body.delayAmount = Str("9:00AM")
        /\ calls[r] # <<>> /\ calls[r][1].at > 0
        /\ calls[r][1].payload.delivery_time_of_day = Str("9:00AM")

\* The mapping a builder was given: data for push, customData for email.
GivenData(r) ==
    IF req[r].route \in PushBuilders THEN req[r].body.data ELSE req[r].body.customData
DataKey(r) == IF req[r].route \in PushBuilders THEN "data" ELSE "custom_data"
EmptyOrAbsent(d) == d.t = "undefined" \/ d.keys = <<>>

\* C8 as stated: every payload (push, delayed push, email, delayed email,
\* segment email) omits the custom-data field when the mapping is empty or
\* absent and carries it verbatim otherwise.  (Push payloads always carry
\* data, {} included.)
C8_EveryBuilderOmitsEmptyData ==
    \A r \in Reqs :
        (req[r].route \in PushBuilders \cup EmailBuilders /\ calls[r] # <<>>)
        => LET p == calls[r][1].payload
           IN  IF EmptyOrAbsent(GivenData(r))
               THEN ~ Has(p, DataKey(r))
               ELSE Has(p, DataKey(r)) /\ p[DataKey(r)] = GivenData(r)

\* C8 amended: every email payload (email, delayed email, segment email)
\* omits custom_data when the customData mapping is empty or absent and
\* carries it verbatim when it is non-empty; every push payload carries a
\* data field: the mapping verbatim when one is given, {} when it is absent.
C8_EmailOmitsEmptyPushKeepsData ==
    \A r \in Reqs :
        (req[r].route \in PushBuilders \cup EmailBuilders /\ calls[r] # <<>>)
        => LET p == calls[r][1].payload
           IN  IF req[r].route \in EmailBuilders
               THEN IF EmptyOrAbsent(GivenData(r))
                    THEN ~ Has(p, "custom_data")
                    ELSE Has(p, "custom_data") /\ p.custom_data = GivenData(r)
               ELSE /\ Has(p, "data") /\ ~ Has(p, "custom_data")
                    /\ p.data = IF GivenData(r).t = "undefined" THEN EmptyObject
                                ELSE GivenData(r)

C8_Witness ==
    \E r \in Reqs :
        /\ req[r].route = "POST /send"
        /\ req[r].body.customData = Obj(<<"plan">>)
        /\ calls[r] # <<>>
        /\ calls[r][1].payload.custom_data = Obj(<<"plan">>)

\* C9: every response carries a boolean success field, true on 200 and false
\* on 400 and 500; stated here for the endpoints that validate a body or call
\* the provider, the health probes aside.  (Their 400 answers and the 500
\* answers of their catch blocks carry none.)
C9_EveryResponseHasSuccess ==
    \A r \in Reqs : \A i \in 1..Len(res[r]) :
        req[r].route \in CatchRoutes \cup {"GET /test-connection"}
        => /\ Has(res[r][i].json, "success")
           /\ res[r][i].json.success = (res[r][i].status = 200)

\* C10: the probe calls the primary API first (Key auth) and the legacy API
\* (Basic auth) only after the primary call failed; the first success wins
\* and the result names its path; when both fail the result is a failure
\* with both error messages and a suggestion, answered 500, success false.
C10_ProbeOrderAndResult ==
    \A r \in Reqs :
        req[r].route = "GET /test-connection"
        => /\ Len(calls[r]) \in {1, 2}
           /\ calls[r][1].auth.scheme = "Key"
           /\ Len(calls[r]) = 2
              => /\ calls[r][2].auth.scheme = "Basic"
                 /\ replies[r] # <<>> /\ ~ replies[r][1].ok
                 /\ calls[r][2].at >= calls[r][1].at
           /\ (replies[r] # <<>> /\ replies[r][1].ok)
              => /\ Len(calls[r]) = 1 /\ pc[r] = "responded"
                 /\ result[r].success /\ result[r].api = "new"
           /\ (Len(replies[r]) = 2 /\ replies[r][2].ok)
              => /\ pc[r] = "responded"
                 /\ result[r].success /\ result[r].api = "legacy"
           /\ (Len(replies[r]) = 2 /\ ~ replies[r][2].ok)
              => /\ pc[r] = "responded"
                 /\ ~ result[r].success
                 /\ result[r].newApiError = replies[r][1].message
                 /\ result[r].legacyApiError = replies[r][2].message
                 /\ Has(result[r], "suggestion")
                 /\ Len(res[r]) = 1 /\ res[r][1].status = 500
                 /\ res[r][1].json.success = FALSE
           /\ pc[r] = "responded" => Len(replies[r]) = Len(calls[r])

\* Both calls failed and the endpoint answered 500.
C10_Witness ==
    \E r \in Reqs :
        /\ req[r].route = "GET /test-connection"
        /\ Len(replies[r]) = 2 /\ ~ replies[r][1].ok /\ ~ replies[r][2].ok
        /\ res[r] # <<>> /\ res[r][1].status = 500
\* C11: a valid trigger-journey request causes exactly one provider call, a
\* PATCH addressed to the request's externalId, whose body is nothing but
\* properties.tags with the single key segmentTag and the value segmentValue
\* (new_users and "true" when the request gives none).
C11_SingleTagPatch ==
    \A r \in Reqs :
        (req[r].route = "POST /trigger-journey" /\ ~ Missing(req[r].body.externalId))
        => LET b == req[r].body
               tag == IF b.segmentTag = Undefined THEN "new_users" ELSE b.segmentTag
               value == IF b.segmentValue = Undefined THEN "true" ELSE b.segmentValue
           IN  /\ Len(calls[r]) = 1
               /\ calls[r][1].method = "PATCH"
               /\ calls[r][1].path = <<"/users/by/external_id", b.externalId>>
               /\ DOMAIN calls[r][1].payload = {"properties"}
               /\ DOMAIN calls[r][1].payload.properties = {"tags"}
               /\ DOMAIN calls[r][1].payload.properties.tags = {tag}
               /\ calls[r][1].payload.properties.tags[tag] = value

\* {externalId: "u1"} alone: the patch is {new_users: "true"} for u1.
C11_Witness ==
    \E r \in Reqs :
        /\ req[r].route = "POST /trigger-journey"
        /\ req[r].body = [externalId |-> "u1", segmentTag |-> Undefined,
                          segmentValue |-> Undefined]
        /\ Len(calls[r]) = 1
        /\ calls[r][1].path = <<"/users/by/external_id", "u1">>
        /\ calls[r][1].payload.properties.tags = [new_users |-> "true"]
\* C12: a delayed payload carries its delay in at most one form: send_after
\* never comes with delayed_option or delivery_time_of_day, and those two
\* come together or not at all.
C12_DelayFormsExclusive ==
    \A r \in Reqs :
        (req[r].route \in DelayedRoutes \cup DelayedMethods /\ calls[r] # <<>>)
        => LET p == calls[r][1].payload
           IN  /\ Has(p, "send_after")
                  => ~ Has(p, "delayed_option") /\ ~ Has(p, "delivery_time_of_day")
               /\ Has(p, "delayed_option") <=> Has(p, "delivery_time_of_day")

\* A delayed email in minutes: send_after alone.
C12_Witness ==
    \E r \in Reqs :
        /\ req[r].route = "POST /send/delayed"
        /\ req[r].body.delayUnit = "minutes"
        /\ calls[r] # <<>>
        /\ DOMAIN calls[r][1].payload \cap DelayKeys = {"send_after"}

\* The other form is reached too: the timezone pair alone.
C12_TimezonePairReached ==
    \E r \in Reqs :
        /\ req[r].route \in DelayedRoutes
        /\ calls[r] # <<>>
        /\ DOMAIN calls[r][1].payload \cap DelayKeys = {"delayed_option", "delivery_time_of_day"}
Configured(e) == ~ Missing(e.ONESIGNAL_APP_ID) /\ ~ Missing(e.ONESIGNAL_API_KEY)

\* C13: constructing the gateway fails with an error whenever the app id or
\* the API key is absent, and then no client exists; so no request is ever
\* handled, and no provider call issued, without both credentials, and every
\* call carries them.
C13_NoCredentialsNoClient ==
    /\ oneSignal.state # "unloaded" => (oneSignal.state = "failed" <=> ~ Configured(env))
    /\ oneSignal.state = "failed" => DOMAIN oneSignal = {"state", "message"}
    /\ \A r \in Reqs :
        /\ pc[r] # "idle" => oneSignal.state = "ready" /\ Configured(env)
        /\ \A i \in 1..Len(calls[r]) :
            /\ Configured(env)
            /\ calls[r][i].auth.key = env.ONESIGNAL_API_KEY

\* The API key alone is absent: construction has failed.
C13_Witness ==
    /\ env.ONESIGNAL_APP_ID = "app-1"
    /\ env.ONESIGNAL_API_KEY = Undefined
    /\ oneSignal.state = "failed"
    /\ oneSignal.message = "ONESIGNAL_APP_ID and ONESIGNAL_API_KEY are required"
\* ---------------------------------------------------------------------------
\* Concurrent exchanges: Express starts a handler for every inbound request and
\* runs each one up to its await; the continuations run in the order the
\* provider's replies arrive.  ConcSpec interleaves the exchanges of Reqs freely
\* over three routes and a few bodies each.
ConcPushDelayedBodies ==
    [userId : Ids("u1"), title : {"T"}, body : {"B"}, data : {NoObject},
     segment : {"VIP"}, delayAmount : {NoAmount},
     delayUnit : {Undefined, "timezone", "weeks"}]
ConcSendBodies ==
    [email : {NoEmail, <<"a", "@", "b", ".", "c", "o">>}, subject : {"S"}, body : {"B"},
     userId : {"u1"}, customData : {NoObject}]

ConcPostPushDelayed(r) ==
    /\ Idle(r)
    /\ \E b \in ConcPushDelayedBodies :
       Begin(r, "POST /push/delayed", b, PostPushDelayedHandler(b, oneSignal, now))

ConcPostSend(r) ==
    /\ Idle(r)
    /\ \E b \in ConcSendBodies : Begin(r, "POST /send", b, PostSendHandler(b, oneSignal))

ConcNext ==
    \/ Construct
    \/ Tick
    \/ \E r \in Reqs :
        \/ ConcPostPushDelayed(r)
        \/ ConcPostSend(r)
        \/ GetTestConnection(r)
        \/ Resume(r)
        \/ ProbeResume(r)
        \/ ProbeLegacyResume(r)
        \/ Close(r)

ConcSpec == Init /\ [][ConcNext]_vars
\* What the handler of a route does with a body up to its first await.

\* The provider answers every call it is sent, and the continuation waiting for
\* the answer is run.
ConcFairSpec ==
    /\ ConcSpec
    /\ \A r \in Reqs :
        /\ WF_vars(Resume(r))
        /\ WF_vars(ProbeResume(r))
        /\ WF_vars(ProbeLegacyResume(r))

HandlerOf(route, b, svc, clock) ==
    CASE route = "POST /push/delayed" -> PostPushDelayedHandler(b, svc, clock)
      [] route = "POST /send" -> PostSendHandler(b, svc)
      [] route = "GET /test-connection" -> GetTestConnectionHandler(b, svc)

\* What the continuation of a route answers, given the replies to its own calls.
AnswerOf(route, b, svc, answers, clock) ==
    LET last == answers[Len(answers)]
    IN  IF route = "GET /test-connection"
        THEN OnProbeResult(testConnectionResult(svc, answers))
        ELSE IF last.ok THEN OnFulfilled(route, b, last.data, clock)
                        ELSE OnRejected(route, last)

Open(r) == pc[r] # "idle"

\* C14: however the exchanges interleave, the client made at construction stays
\* what the constructor made of the environment, the call an exchange forwards is
\* what its handler makes of its own body (with that client and the clock read
\* when it ran), and the response it sends is what its continuation makes of its
\* own body and the replies to its own calls, whatever the other exchange holds.
C14_ExchangesIndependent ==
    /\ oneSignal.state # "unloaded" => oneSignal = constructor(env)
    /\ \A r \in Reqs : Open(r) =>
        LET svc == constructor(env)
            b == req[r].body
            route == req[r].route
        IN  /\ calls[r] # <<>> =>
                LET step == HandlerOf(route, b, svc, calls[r][1].at)
                IN  /\ step.kind = "await"
                    /\ calls[r][1] = step.request @@ [at |-> calls[r][1].at]
            /\ Len(calls[r]) = 2 =>
                /\ route = "GET /test-connection"
                /\ calls[r][2] = testConnectionLegacy(svc) @@ [at |-> calls[r][2].at]
            /\ res[r] # <<>> =>
                LET step == IF calls[r] = <<>>
                            THEN HandlerOf(route, b, svc, res[r][1].at)
                            ELSE AnswerOf(route, b, svc, replies[r], res[r][1].at)
                IN  /\ Len(res[r]) = 1
                    /\ step.kind = "respond"
                    /\ res[r][1].status = step.status
                    /\ res[r][1].json = step.json

\* Two exchanges of one route with different bodies are open at once, and the
\* one that began later has been answered first.
C14_Witness ==
    /\ pc[1] = "awaiting" /\ pc[2] = "responded"
    /\ req[1].route = "POST /push/delayed" /\ req[2].route = "POST /push/delayed"
    /\ req[1].body.delayUnit = "timezone" /\ req[2].body.delayUnit = Undefined
    /\ req[1].body.userId # req[2].body.userId
    /\ res[2][1].status = 200
    /\ calls[1][1].at < calls[2][1].at
Waiting(r) == pc[r] \in {"awaiting", "awaitingLegacy"}

\* The request is one its handler forwards: its route calls the provider and it
\* passes the handler's validation, if the handler has any.
Validated(r) ==
    \/ req[r].route \in (CatchRoutes \ SendRoutes) \cup {"GET /test-connection"}
    \/ req[r].route \in SendRoutes /\ ~ Invalid(req[r].route, req[r].body)

\* An exchange holds no response while a call of its is outstanding and one
\* response once it has answered; a response to a validated request comes after
\* the replies to all the calls the exchange made, of which there is at least one
\* unless building the payload threw.
OneResponseAfterReplies ==
    \A r \in Reqs :
        /\ Len(res[r]) <= 1
        /\ Open(r) => (pc[r] = "responded" <=> Len(res[r]) = 1)
        /\ Waiting(r) => Len(replies[r]) = Len(calls[r]) - 1
        /\ (Open(r) /\ res[r] # <<>>) =>
            /\ Len(replies[r]) = Len(calls[r])
            /\ \A i \in 1..Len(calls[r]) : calls[r][i].at <= res[r][1].at
            /\ (Validated(r) /\ ~ BuildThrows(req[r].route, req[r].body)) => calls[r] # <<>>
            /\ ~ Validated(r) => calls[r] = <<>>

\* C15: every request gets exactly one response; a validated request gets it
\* only after its provider call has completed; and, the provider answering every
\* call, an exchange waiting for the provider is eventually answered.
C15_ExactlyOneResponse ==
    /\ []OneResponseAfterReplies
    /\ \A r \in Reqs : Waiting(r) ~> (pc[r] = "responded" /\ Len(res[r]) = 1)

\* Both exchanges have waited for the provider at once and both are answered, the
\* probe after two calls.
C15_Witness ==
    /\ pc[1] = "responded" /\ pc[2] = "responded"
    /\ req[1].route = "GET /test-connection" /\ Len(replies[1]) = 2
    /\ req[2].route = "POST /send" /\ Len(replies[2]) = 1
    /\ calls[1][2].at > res[2][1].at
    /\ calls[2][1].at >= calls[1][1].at
\* C16: a delayed handler that answers 200 with scheduledFor as an absolute
\* instant forwarded a payload whose send_after is the clock reading at the call
\* plus the seconds of the same amount and unit, the offset scheduledFor adds to
\* the clock reading at the response.  (For days the payload has no send_after.)
C16_ReportedScheduleWasForwarded ==
    \A r \in Reqs :
        (/\ req[r].route \in DelayedRoutes
         /\ res[r] # <<>>
         /\ res[r][1].status = 200
         /\ res[r][1].json.scheduledFor.t = "instant")
        => LET c == calls[r][1]
               b == req[r].body
               seconds == AmountOf(b).n * Factor(UnitOf(b))
           IN  /\ res[r][1].json.scheduledFor.at =
                      [s |-> res[r][1].at \div 1000 + seconds, ms |-> res[r][1].at % 1000]
               /\ Has(c.payload, "send_after")
               /\ c.payload.send_after = [s |-> c.at \div 1000 + seconds, ms |-> c.at % 1000]

OmitsDelay(b) == b.delayAmount = NoAmount /\ b.delayUnit = Undefined

\* C17: a delayed request that gives neither delayAmount nor delayUnit is not
\* rejected for its unit; when its other fields are valid it is forwarded, and
\* the payload carries send_after equal to the clock reading at the call plus 30
\* seconds and no timezone option.
C17_DefaultThirtySeconds ==
    \A r \in Reqs :
        (req[r].route \in DelayedRoutes /\ OmitsDelay(req[r].body)) =>
            /\ res[r] # <<>> => res[r][1].json # [error |->
                   "Invalid delay unit. Must be one of: seconds, minutes, hours, days, timezone"]
            /\ ~ Invalid(req[r].route, req[r].body) =>
                /\ Len(calls[r]) = 1
                /\ Has(calls[r][1].payload, "send_after")
                /\ calls[r][1].payload.send_after =
                       [s |-> calls[r][1].at \div 1000 + 30, ms |-> calls[r][1].at % 1000]
                /\ ~ Has(calls[r][1].payload, "delayed_option")

\* A delayed email without delayAmount and delayUnit was forwarded when the clock
\* read 1 ms and answered 200.
C17_Witness ==
    \E r \in Reqs :
        /\ req[r].route = "POST /send/delayed"
        /\ OmitsDelay(req[r].body)
        /\ res[r] # <<>>
        /\ res[r][1].status = 200
        /\ calls[r][1].at = 1
        /\ calls[r][1].payload.send_after = [s |-> 30, ms |-> 1]
====
